---------------------------- MODULE Spec2Model ----------------------------
(***************************************************************************)
(* A model of the EVTX walker and BinXml decoder of                        *)
(* SOURCES/forensics/main_parse_evtx.cpp.                                  *)
(*                                                                         *)
(* The input file is drawn in Init from a bounded family of byte-level     *)
(* files; from there the program is deterministic except where it reads    *)
(* memory outside a buffer or depends on the C library (gmtime_r).         *)
(*                                                                         *)
(* Numbers wider than 16 bits (uint32_t fields, size_t offsets, pointers   *)
(* relative to the chunk buffer) are pairs <<hi, lo>> standing for         *)
(* hi * 65536 + lo, so that the 32-bit wrap of size_t on a 32-bit build    *)
(* and of uint32_t everywhere is computed, not assumed away.               *)
(***************************************************************************)
EXTENDS Integers, Sequences, FiniteSets, TLC

(***************************************************************************)
(* Numbers                                                                 *)
(***************************************************************************)
Limb == 256 * 256

Num(n) == <<n \div Limb, n % Limb>>

Zero == <<0, 0>>

Add(a, b) == <<a[1] + b[1] + ((a[2] + b[2]) \div Limb), (a[2] + b[2]) % Limb>>

AddN(a, n) == Add(a, Num(n))

\* a - b for a >= b
Sub(a, b) ==
    IF a[2] >= b[2] THEN <<a[1] - b[1], a[2] - b[2]>>
    ELSE <<a[1] - b[1] - 1, a[2] + Limb - b[2]>>

Lt(a, b) == a[1] < b[1] \/ (a[1] = b[1] /\ a[2] < b[2])

Le(a, b) == a[1] < b[1] \/ (a[1] = b[1] /\ a[2] <= b[2])

\* a value truncated to 32 bits
Wrap32(a) == <<a[1] % Limb, a[2]>>

\* the two halves of a 64-bit value, most significant first, each a pair
Lt64(a, b) == Lt(a[1], b[1]) \/ (a[1] = b[1] /\ Lt(a[2], b[2]))

Le64(a, b) == a = b \/ Lt64(a, b)

(***************************************************************************)
(* Byte sequences: little-endian fields and their decoding                 *)
(***************************************************************************)
RECURSIVE Cat(_)
Cat(ss) == IF ss = <<>> THEN <<>> ELSE Head(ss) \o Cat(Tail(ss))

LE16(n) == <<n % 256, n \div 256>>

LE32(a) == LE16(a[2]) \o LE16(a[1])

LE64(q) == LE32(q[2]) \o LE32(q[1])

U16(bs) == bs[1] + 256 * bs[2]

U32(bs) == <<bs[3] + 256 * bs[4], bs[1] + 256 * bs[2]>>

U64(bs) == <<U32(SubSeq(bs, 5, 8)), U32(SubSeq(bs, 1, 4))>>

Zeros(n) == [k \in 1..n |-> 0]

(***************************************************************************)
(* State                                                                   *)
(***************************************************************************)
VARIABLES
    sizeBits,     \* width of size_t in the build: 32 or 64
    argv,         \* the input: the files named on the command line
    fileNo,       \* main's idx: the file being parsed
    pc,           \* where the walker stands
    header,       \* ParseEVTXInt's header, as read
    off,          \* ParseEVTXInt's off: file offset of the current chunk
    chunk,        \* ParseEVTXInt's chunk buffer
    result,       \* ParseEVTXInt's result
    inRecordOff,  \* ParseEVTXInt's inRecordOff
    recordIdx,    \* records of the current chunk whose decoding has begun
    ids,          \* the template cache (Templates::knownIDs)
    nameStack,    \* the name stack (names below nameStackPtr, bottom first)
    attributes,   \* for each name of the name stack, whether ParseAttributes pushed it
    decoded,      \* the templates of the chunk whose body ParseBinXml decoded with success
    frames,       \* the ParseContexts on the call stack, outermost first
    out,          \* standard output, as a sequence of emissions
    reads,        \* the chunk reads performed by the last step
    instSeq,      \* number of ParseTemplateInstance calls so far
    returned,     \* what ParseEVTX returned, file by file
    ends,         \* the length of out when each call of ParseEVTX returned
    utf16,        \* UTF16ToUTF8's w
    utf8,         \* UTF16ToUTF8's buffer: the bufferUsed bytes written so far
    utf8Size      \* UTF16ToUTF8's bufferSize

vars == <<sizeBits, argv, fileNo, pc, header, off, chunk, result, inRecordOff, recordIdx,
          ids, nameStack, attributes, decoded, frames, out, reads, instSeq, returned, ends,
          utf16, utf8, utf8Size>>

\* the arguments of a call of UTF16ToUTF8 on its own
conversion == <<utf16, utf8, utf8Size>>

(***************************************************************************)
(* Bounds of the model                                                     *)
(***************************************************************************)
\* regions per file, records per region and argument slots per instance
\* of the files drawn; records for which a walk is followed
MaxChunks == 2

MaxRecords == 2

MaxArgs == 2

MaxPrinted == 4

\* the largest bufferSize of the calls of UTF16ToUTF8 on its own
MaxUtf8Size == 7

\* iterations of the loop over an instance's arguments that are followed
MaxArgSteps == 4

(***************************************************************************)
(* Program constants                                                       *)
(***************************************************************************)
EVTX_CHUNK_SIZE == 65536

MAX_NAME_STACK_DEPTH == 20

SizeofEvtxHeader == 4096

SizeofEvtxChunkHeader == 512

SizeofEvtxRecordHeader == 24

NameBufferSize == 256

EvtxVersion == <<3, 1>>

RecordMagic == <<0, 10794>>

NULL == <<-1>>

\* "ElfFile" and "ElfChnk", each with its terminating NUL
EVTX_HEADER_MAGIC == <<69, 108, 102, 70, 105, 108, 101, 0>>

EVTX_CHUNK_HEADER_MAGIC == <<69, 108, 102, 67, 104, 110, 107, 0>>

StrData == <<68, 97, 116, 97>>

StrEventData == <<69, 118, 101, 110, 116, 68, 97, 116, 97>>

StrName == <<78, 97, 109, 101>>

(***************************************************************************)
(* size_t and the chunk buffer                                             *)
(***************************************************************************)
\* a value stored in a size_t (or a pointer difference) of this build
SizeT(a) == IF sizeBits = 32 THEN Wrap32(a) ELSE a

\* the byte of a chunk region at index i < EVTX_CHUNK_SIZE: the header
\* prefix, the bytes from the first record on, zero elsewhere
RegionByte(r, i) ==
    IF i < Len(r.head) THEN r.head[i + 1]
    ELSE IF i >= SizeofEvtxChunkHeader /\ i < SizeofEvtxChunkHeader + Len(r.body)
         THEN r.body[i - SizeofEvtxChunkHeader + 1]
         ELSE 0

RegionBytes(r, i, n) == [k \in 1..n |-> RegionByte(r, i + k - 1)]

InChunk(idx) == Lt(idx, Num(EVTX_CHUNK_SIZE))

\* the byte at chunk[idx]; g is what memory outside the buffer holds
Mem(idx, g) == IF InChunk(idx) THEN RegionByte(chunk, idx[2]) ELSE g

(***************************************************************************)
(* ParseContext.  A reader r is a context being read by one step:          *)
(*   c    the ParseContext                                                 *)
(*   ok   FALSE once a read has failed                                     *)
(*   v    the value of the last read                                       *)
(*   log  the chunk reads performed so far, each with the context's        *)
(*        data pointer (relative to the chunk buffer), offset and dataLen  *)
(*        at the time of the read                                          *)
(*   g    what a byte outside the chunk buffer reads as                    *)
(***************************************************************************)
Reader(c, g) == [c |-> c, ok |-> TRUE, v |-> <<>>, log |-> <<>>, g |-> g]

HaveEnoughData(c, numBytes) == Le(SizeT(Add(c.offset, numBytes)), c.dataLen)

SkipBytes(c, numBytes) == [c EXCEPT !.offset = SizeT(Add(@, numBytes))]

\* the address data + offset + k, relative to the chunk buffer
Addr(c, k) == SizeT(Add(c.data, AddN(c.offset, k)))

\* the n bytes at data + offset: read from the region when all of them
\* lie in the chunk buffer, one by one when not
BytesAt(c, n, g) ==
    LET first == Addr(c, 0)
        last == Addr(c, n - 1)
    IN  IF n > 0 /\ InChunk(first) /\ InChunk(last) /\ Le(first, last)
        THEN [k \in 1..n |-> RegionByte(chunk, first[2] + k - 1)]
        ELSE [k \in 1..n |-> Mem(Addr(c, k - 1), g)]

\* ReadData<c>(result, count) with sizeof(c) * count = n
ReadData(r, n) ==
    IF ~r.ok THEN r
    ELSE IF ~HaveEnoughData(r.c, Num(n)) THEN [r EXCEPT !.ok = FALSE]
    ELSE [r EXCEPT
            !.v = BytesAt(r.c, n, r.g),
            !.c = SkipBytes(r.c, Num(n)),
            !.log = Append(@, [data |-> r.c.data, offset |-> r.c.offset,
                               dataLen |-> r.c.dataLen, n |-> n])]

\* child.InheritWithOffset(other, wantedLen); otherIdx is where other
\* stands on the call stack
InheritWithOffset(child, other, otherIdx, wantedLen) ==
    [child EXCEPT
        !.data = SizeT(Add(other.data, other.offset)),
        !.dataLen =
            IF Lt(other.dataLen, SizeT(Add(other.offset, wantedLen)))
            THEN IF Le(other.dataLen, other.offset) THEN Zero
                 ELSE Sub(other.dataLen, other.offset)
            ELSE wantedLen,
        !.offset = Zero,
        !.chunkContext = otherIdx,
        !.offsetFromChunkStart = SizeT(Add(other.offset, other.offsetFromChunkStart)),
        !.cachedValue = <<>>]

UpdateLen(c, wantedLen) ==
    IF Le(wantedLen, c.dataLen) THEN [c EXCEPT !.dataLen = wantedLen] ELSE c

(***************************************************************************)
(* C strings: a char buffer holds the bytes before its first NUL           *)
(***************************************************************************)
CStr(buf) ==
    LET nul == {i \in 1..Len(buf) : buf[i] = 0}
    IN  IF nul = {} THEN buf
        ELSE SubSeq(buf, 1, (CHOOSE i \in nul : \A j \in nul : i <= j) - 1)

\* strncpy(dst, src, n); dst[n - 1] = 0
StrNCpy(src, n) == IF Len(src) > n - 1 THEN SubSeq(src, 1, n - 1) ELSE src

(***************************************************************************)
(* The name stack                                                          *)
(***************************************************************************)
\* a push that does not look at the depth
PushUnchecked(ns, name) == Append(ns, StrNCpy(name, NameBufferSize))

PushName(ns, name) ==
    IF (Len(ns) - 1) + 1 >= MAX_NAME_STACK_DEPTH THEN ns
    ELSE Append(ns, StrNCpy(name, NameBufferSize))

PopName(ns) == IF Len(ns) - 1 > -1 THEN SubSeq(ns, 1, Len(ns) - 1) ELSE ns

GetName(ns) ==
    IF Len(ns) - 1 <= -1 \/ Len(ns) - 1 >= MAX_NAME_STACK_DEPTH THEN NULL
    ELSE ns[Len(ns)]

GetUpperName(ns) ==
    IF Len(ns) - 1 <= -1 \/ Len(ns) - 1 >= MAX_NAME_STACK_DEPTH THEN NULL
    ELSE IF Len(ns) - 1 < 1 THEN NULL
    ELSE ns[Len(ns) - 1]

(***************************************************************************)
(* The template cache                                                      *)
(***************************************************************************)
EmptyDescription == [fixed |-> <<>>, args |-> <<>>]

IsKnownID(t, id) == id \in DOMAIN t

RegisterID(t, id) ==
    [x \in DOMAIN t \cup {id} |-> IF x = id THEN EmptyDescription ELSE t[x]]

\* the args table is a sequence of [idx, key, type], one per index
ArgsFind(d, idx) == {a \in 1..Len(d.args) : d.args[a].idx = idx}

RegisterFixedPair(d, key, value) ==
    [d EXCEPT !.fixed = Append(@, [key |-> key, value |-> value])]

RegisterArgPair(d, key, type, argIdx) ==
    IF ArgsFind(d, argIdx) # {} THEN d
    ELSE [d EXCEPT !.args = Append(@, [idx |-> argIdx,
                                       key |-> IF key = NULL THEN <<>> ELSE key,
                                       type |-> type])]

(***************************************************************************)
(* UTF16ToUTF8                                                             *)
(***************************************************************************)
RECURSIVE BitOr(_, _)
BitOr(a, b) ==
    IF a = 0 THEN b
    ELSE IF b = 0 THEN a
    ELSE 2 * BitOr(a \div 2, b \div 2) + (IF a % 2 = 1 \/ b % 2 = 1 THEN 1 ELSE 0)

RECURSIVE BitAnd(_, _)
BitAnd(a, b) ==
    IF a = 0 \/ b = 0 THEN 0
    ELSE 2 * BitAnd(a \div 2, b \div 2) + (IF a % 2 = 1 /\ b % 2 = 1 THEN 1 ELSE 0)

Utf8CharLength(w) == 1 + (IF w > 127 THEN 1 ELSE 0) + (IF w > 2047 THEN 1 ELSE 0)
                       + (IF w > 65535 THEN 1 ELSE 0)

Utf8Msb(w) == BitOr(BitOr(IF w > 127 THEN 128 + 64 ELSE 0, IF w > 2047 THEN 32 ELSE 0),
                    IF w > 65535 THEN 16 ELSE 0)

Utf8Mask(w) == IF w > 65535 THEN 15 ELSE IF w > 2047 THEN 31 ELSE IF w > 127 THEN 255 ELSE 0

\* the continuation bytes buffer[used + 1 .. used + charLength - 1]
Utf8Tail(w, charLength) ==
    [charIndex \in 1..(charLength - 1) |->
        BitOr(128, BitAnd(w \div (64 ^ (charLength - 1 - charIndex)), 63))]

\* a conversion that leaves no room for the terminator
UTF16ToUTF8Tight(w, buffer, bufferSize) ==
    LET charLength == Utf8CharLength(w)
    IN  IF Len(buffer) + charLength > bufferSize THEN buffer
        ELSE IF charLength = 1 THEN Append(buffer, w % 256)
        ELSE buffer
             \o <<BitOr(Utf8Msb(w), BitAnd(w \div (64 ^ (charLength - 1)), Utf8Mask(w))) % 256>>
             \o Utf8Tail(w, charLength)

\* buffer holds the bufferUsed bytes written so far; the result is the
\* buffer after the call
UTF16ToUTF8(w, buffer, bufferSize) ==
    LET charLength == Utf8CharLength(w)
    IN  IF Len(buffer) + charLength >= bufferSize THEN buffer
        ELSE IF charLength = 1 THEN Append(buffer, w % 256)
        ELSE buffer
             \o <<BitOr(Utf8Msb(w), BitAnd(w \div (64 ^ (charLength - 1)), Utf8Mask(w))) % 256>>
             \o Utf8Tail(w, charLength)

(***************************************************************************)
(* Strings and names                                                       *)
(***************************************************************************)
\* The least i in lo..hi whose read fails, hi + 1 when none does, of
\* reads of unit bytes each made one after another from c (the i-th from 0)
RECURSIVE FirstShort(_, _, _, _)
FirstShort(c, unit, lo, hi) ==
    IF lo > hi THEN lo
    ELSE IF lo = hi
    THEN (IF HaveEnoughData(SkipBytes(c, Num(lo * unit)), Num(unit)) THEN lo + 1 ELSE lo)
    ELSE LET mid == (lo + hi) \div 2
             left == FirstShort(c, unit, lo, mid)
         IN  IF left <= mid THEN left ELSE FirstShort(c, unit, mid + 1, hi)

\* A loop of count reads of unit bytes each that ends at the first read
\* that fails: the reader after it and the values read.  The reads of
\* the loop are adjacent and are logged as one read of all their bytes.
ReadMany(r, unit, count) ==
    LET Read(n) ==
            [r |-> [r EXCEPT
                      !.ok = (n = count),
                      !.c = SkipBytes(r.c, Num(n * unit)),
                      !.log = IF n = 0 THEN @
                              ELSE Append(@, [data |-> r.c.data, offset |-> r.c.offset,
                                              dataLen |-> r.c.dataLen, n |-> n * unit])],
             vals |-> LET bytes == BytesAt(r.c, n * unit, r.g)
                      IN  [i \in 1..n |-> [k \in 1..unit |-> bytes[(i - 1) * unit + k]]]]
    IN  Read(FirstShort(r.c, unit, 0, count - 1))

\* UTF16ToUTF8 applied to units[lo], ..., units[hi] in turn; once a
\* character of one byte no longer fits, no character does
RECURSIVE Utf8OfUnits(_, _, _, _, _)
Utf8OfUnits(units, lo, hi, buffer, bufferSize) ==
    IF lo > hi THEN buffer
    ELSE IF lo = hi THEN UTF16ToUTF8(U16(units[lo]), buffer, bufferSize)
    ELSE LET mid == (lo + hi) \div 2
             left == Utf8OfUnits(units, lo, mid, buffer, bufferSize)
         IN  IF Len(left) + 1 >= bufferSize THEN left
             ELSE Utf8OfUnits(units, mid + 1, hi, left, bufferSize)

\* the number of idx with idx < nameCharCnt and idx * 2 < nameBufferSize - 1
UnitsToRead(nameCharCnt, nameBufferSize) ==
    IF nameCharCnt < nameBufferSize \div 2 THEN nameCharCnt ELSE nameBufferSize \div 2

\* on success r.v is the string left in nameBuffer
ReadPrefixedUnicodeString(r, nameBufferSize, isNullTerminated) ==
    LET Terminated(nameCharCnt, idx, m) ==
            IF ~m.r.ok THEN m.r
            ELSE [m.r EXCEPT
                    !.v = CStr(Utf8OfUnits(m.vals, 1, idx, <<>>, nameBufferSize)),
                    !.c = SkipBytes(m.r.c,
                            Num((nameCharCnt - idx + (IF isNullTerminated THEN 1 ELSE 0)) * 2))]
        Units(r1, nameCharCnt, idx) == Terminated(nameCharCnt, idx, ReadMany(r1, 2, idx))
        Counted(r1) ==
            IF ~r1.ok THEN r1
            ELSE Units(r1, U16(r1.v), UnitsToRead(U16(r1.v), nameBufferSize))
    IN  Counted(ReadData(r, 2))

\* ReadName(ctx, nameBuffer, 256); chunkCtx is *ctx->chunkContext
ReadName(r, chunkCtx) ==
    LET Named(r1, inPlace, done) ==
            IF inPlace THEN (IF done.ok THEN done ELSE [done EXCEPT !.v = <<>>])
            ELSE [done EXCEPT !.c = r1.c, !.v = IF done.ok THEN done.v ELSE <<>>]
        From(r1, inPlace, ctxPtr) ==
            Named(r1, inPlace,
                  ReadPrefixedUnicodeString(ReadData(ReadData(ctxPtr, 4), 2), NameBufferSize,
                                            TRUE))
        At(r1, chunkOffset, inPlace) ==
            From(r1, inPlace,
                 IF inPlace THEN r1
                 ELSE [r1 EXCEPT !.c = [chunkCtx EXCEPT !.offset = chunkOffset]])
        Offset(r1) ==
            IF ~r1.ok THEN [r1 EXCEPT !.v = <<>>]
            ELSE At(r1, U32(r1.v),
                    SizeT(Add(r1.c.offset, r1.c.offsetFromChunkStart)) = U32(r1.v))
    IN  Offset(ReadData(r, 4))

\* the key without the rewrite of Data under EventData
GetNameAsKey(c, ns) == GetName(ns)

GetProperKeyName(c, ns) ==
    LET key == GetName(ns)
        upperName == GetUpperName(ns)
    IN  IF upperName # NULL /\ key # NULL /\ key = StrData /\ upperName = StrEventData
           /\ c.cachedValue # <<>>
        THEN c.cachedValue
        ELSE key

\* SetState(ctx, newState): the context and the name stack after it
SetState(c, ns, newState) ==
    IF newState = c.state THEN [c |-> c, ns |-> ns]
    ELSE [c |-> [c EXCEPT !.state = newState],
          ns |-> IF c.state = "InAttribute" THEN PopName(ns) ELSE ns]

(***************************************************************************)
(* Emissions, contexts on the call stack                                   *)
(***************************************************************************)
\* one printf of the program: k is its kind, inst the template instance
\* (numbered by call) that printed it
Ev(k, inst, idx, key, val) == [k |-> k, inst |-> inst, idx |-> idx, key |-> key, val |-> val]

\* the locals of a ParseTemplateInstance call that is running on a context
NoTI == [phase |-> "none", inst |-> 0, shortID |-> NULL, templateBodyLen |-> Zero,
         numArguments |-> Zero, argumentMap |-> <<>>, argumentIdx |-> 0, argLen |-> 0]

\* a ParseContext, with ParseBinXml's result and its caller
NewContext == [data |-> Zero, dataLen |-> Zero, offset |-> Zero, offsetFromChunkStart |-> Zero,
               chunkContext |-> 1, state |-> "Normal", currentTemplatePtr |-> NULL,
               cachedValue |-> <<>>, result |-> TRUE, caller |-> "record", ti |-> NoTI]

Top == frames[Len(frames)]

\* *c.chunkContext, for the context c on top of the call stack
ChunkContextOf(c) == IF c.chunkContext = Len(frames) THEN c ELSE frames[c.chunkContext]

\* what a read outside a buffer can do: fault, or deliver some byte
Fault == 0 - 1

Wild == {Fault, 0, 255}

WildByte(g) == IF g = Fault THEN 0 ELSE g

\* a logged read that left the chunk buffer
OutsideChunk(rd) ==
    LET first == SizeT(Add(rd.data, rd.offset))
        last == SizeT(Add(rd.data, AddN(rd.offset, rd.n - 1)))
    IN  rd.n > 0 /\ (~InChunk(first) \/ ~InChunk(last) \/ Lt(last, first))

Touched(log) == \E i \in 1..Len(log) : OutsideChunk(log[i])

Crash(log) ==
    /\ pc' = "crashed"
    /\ reads' = log
    /\ UNCHANGED <<conversion, sizeBits, argv, fileNo, header, off, chunk, result,
                   inRecordOff, recordIdx, ids,
                   nameStack, attributes, decoded, frames, out, instSeq, returned, ends>>

\* which names of the stack ParseAttributes pushed, when the token of the
\* step leaves the name stack ns
Marked(g, ns) ==
    IF Len(ns) > Len(nameStack) THEN Append(attributes, Mem(Addr(Top, 0), WildByte(g)) \in {6, 70})
    ELSE SubSeq(attributes, 1, Len(ns))

\* the templates whose body is decoded, when the step leaves the call
\* stack newFrames: one more when ParseBinXml(&templateCtx) returns true
Decoded(newFrames) ==
    IF Len(newFrames) < Len(frames) /\ Top.caller = "template" /\ Top.result
    THEN decoded \cup {frames[Len(frames) - 1].ti.shortID}
    ELSE decoded

\* the end of one step of the decoder on the top context
Commit(g, newFrames, ns, t, emits, log, insts) ==
    IF g = Fault /\ Touched(log) THEN Crash(log)
    ELSE /\ frames' = newFrames
         /\ nameStack' = ns
         /\ attributes' = Marked(g, ns)
         /\ decoded' = Decoded(newFrames)
         /\ ids' = t
         /\ out' = out \o emits
         /\ reads' = log
         /\ instSeq' = instSeq + insts
         /\ UNCHANGED <<conversion, sizeBits, argv, fileNo, pc, header, off, chunk, result,
                        inRecordOff, recordIdx, returned, ends>>

SetTop(c) == [frames EXCEPT ![Len(frames)] = c]

(***************************************************************************)
(* ParseBinXml: one action per iteration of its loop, by tag               *)
(***************************************************************************)
InLoop ==
    /\ pc = "binxml"
    /\ Top.ti.phase = "none"
    /\ Top.result
    /\ Lt(Top.offset, Top.dataLen)

\* tag = ctx->data[ctx->offset++]
Tag(g) == Mem(Addr(Top, 0), WildByte(g))

TagRead == [data |-> Top.data, offset |-> Top.offset, dataLen |-> Top.dataLen, n |-> 1]

AfterTag(g) == [Reader(SkipBytes(Top, Num(1)), WildByte(g)) EXCEPT !.log = <<TagRead>>]

EndOfFragment(g) ==
    /\ InLoop
    /\ Tag(g) = 0
    /\ Commit(g, SetTop([AfterTag(g).c EXCEPT !.offset = Top.dataLen]),
              nameStack, ids, <<>>, <<TagRead>>, 0)

ParseOpenStartElement(g) ==
    /\ InLoop
    /\ Tag(g) \in {1, 65}
    /\ LET End(r3, r4) ==
               Commit(g, SetTop([r4.c EXCEPT !.result = r4.ok]),
                      IF r4.ok THEN PushName(nameStack, r3.v) ELSE nameStack,
                      ids, <<>>, r4.log, 0)
           Named(r3) == End(r3, IF Tag(g) = 65 THEN ReadData(r3, 4) ELSE r3)
           Sized(r2) == Named(ReadName(r2, ChunkContextOf(r2.c)))
       IN  Sized(ReadData(ReadData(AfterTag(g), 2), 4))

ParseCloseStartElement(g) ==
    /\ InLoop
    /\ Tag(g) = 2
    /\ LET s == SetState(AfterTag(g).c, nameStack, "Normal")
       IN  Commit(g, SetTop(s.c), s.ns, ids, <<>>, <<TagRead>>, 0)

ParseCloseElement(g) ==
    /\ InLoop
    /\ Tag(g) \in {3, 4}
    /\ LET s == SetState(AfterTag(g).c, nameStack, "Normal")
       IN  Commit(g, SetTop(s.c), PopName(s.ns), ids, <<>>, <<TagRead>>, 0)

\* a ValueText that registers whatever has a key
RegistersAnyPair(key, upperName) == key # NULL

\* whether ParseValueText registers the pair (key, value)
RegistersFixedPair(key, upperName) ==
    key # NULL /\ (upperName = NULL \/ key # StrName \/ upperName # StrData)

ParseValueText(g) ==
    /\ InLoop
    /\ Tag(g) \in {5, 69}
    /\ LET Registered(r2, key, upperName, tp, s) ==
               Commit(g,
                  SetTop([s.c EXCEPT !.cachedValue = StrNCpy(r2.v, NameBufferSize)]),
                  s.ns,
                  IF RegistersFixedPair(key, upperName) /\ tp # NULL
                  THEN [ids EXCEPT ![tp] = RegisterFixedPair(@, key, r2.v)]
                  ELSE ids,
                  <<>>, r2.log, 0)
           End(r2) ==
               IF ~r2.ok
               THEN Commit(g, SetTop([r2.c EXCEPT !.result = FALSE]), nameStack, ids, <<>>,
                           r2.log, 0)
               ELSE Registered(r2, GetProperKeyName(r2.c, nameStack), GetUpperName(nameStack),
                               r2.c.currentTemplatePtr, SetState(r2.c, nameStack, "Normal"))
       IN  End(ReadPrefixedUnicodeString(ReadData(AfterTag(g), 1), NameBufferSize, FALSE))

ParseAttributes(g) ==
    /\ InLoop
    /\ Tag(g) \in {6, 70}
    /\ LET Pushed(r1, s) == Commit(g, SetTop(s.c), s.ns, ids, <<>>, r1.log, 0)
           End(r1) ==
               IF ~r1.ok
               THEN Commit(g, SetTop([r1.c EXCEPT !.result = FALSE]), nameStack, ids, <<>>,
                           r1.log, 0)
               ELSE Pushed(r1, SetState(r1.c, PushName(nameStack, r1.v), "InAttribute"))
       IN  End(ReadName(AfterTag(g), ChunkContextOf(AfterTag(g).c)))

\* CDATASection, CharRef, EntityRef, PITarget, PIData: nothing but the tag
IgnoredToken(g) ==
    /\ InLoop
    /\ Tag(g) \in {7, 71, 8, 72, 9, 73, 10, 11}
    /\ Commit(g, SetTop(AfterTag(g).c), nameStack, ids, <<>>, <<TagRead>>, 0)

ParseOptionalSubstitution(g) ==
    /\ InLoop
    /\ Tag(g) \in {13, 14}
    /\ LET Registered(r3, substitutionID, valueType, tp, s) ==
               Commit(g, SetTop(s.c), s.ns,
                  IF tp # NULL
                  THEN [ids EXCEPT ![tp] = RegisterArgPair(@, GetProperKeyName(r3.c, nameStack),
                                                           valueType, substitutionID)]
                  ELSE ids,
                  <<>>, r3.log, 0)
           End(r3, substitutionID) ==
               IF ~r3.ok
               THEN Commit(g, SetTop([r3.c EXCEPT !.result = FALSE]), nameStack, ids, <<>>,
                           r3.log, 0)
               ELSE Registered(r3, substitutionID, r3.v[1], r3.c.currentTemplatePtr,
                               SetState(r3.c, nameStack, "Normal"))
           Typed(r2, substitutionID) ==
               End(IF r2.ok /\ r2.v[1] = 0 THEN ReadData(r2, 1) ELSE r2, substitutionID)
           Indexed(r1) == Typed(ReadData(r1, 1), U16(r1.v))
       IN  Indexed(ReadData(AfterTag(g), 2))

FragmentHeader(g) ==
    /\ InLoop
    /\ Tag(g) = 15
    /\ Commit(g, SetTop(SkipBytes(AfterTag(g).c, Num(3))), nameStack, ids, <<>>, <<TagRead>>, 0)

KnownTags == {0, 1, 65, 2, 3, 4, 5, 69, 6, 70, 7, 71, 8, 72, 9, 73, 10, 11, 12, 13, 14, 15}

BadTag(g) ==
    /\ InLoop
    /\ Tag(g) \notin KnownTags
    /\ Commit(g, SetTop([AfterTag(g).c EXCEPT !.result = FALSE]), nameStack, ids, <<>>,
              <<TagRead>>, 0)

(***************************************************************************)
(* ParseTemplateInstance                                                   *)
(***************************************************************************)
\* reads of unit bytes each until one fails (the StringArray loop); no
\* context holds more than a chunk
ReadAll(r, unit) ==
    LET All(m) == [r |-> [m.r EXCEPT !.ok = TRUE], vals |-> m.vals]
    IN  All(ReadMany(r, unit, EVTX_CHUNK_SIZE))

\* the bytes read by the types that read one value of a fixed size
FixedSize(argType) ==
    CASE argType = 4 -> 1
      [] argType = 6 -> 2
      [] argType \in {8, 20} -> 4
      [] argType \in {10, 21, 17} -> 8
      [] argType = 15 -> 16
      [] OTHER -> 0

\* the body of the switch on argType for an argument the template
\* declares, but for type 0x21: the reader after it and what it printed
ArgValue(r, argLen, argType, argPair, inst, argumentIdx) ==
    LET ev(k, val) == Ev(k, inst, argumentIdx, argPair.key, <<argType, val>>)
        String(m) ==
            [r |-> m.r,
             emits |-> IF m.r.ok
                       THEN <<ev("arg", CStr(Utf8OfUnits(m.vals, 1, Len(m.vals), <<>>,
                                                         argLen * 2 + 2)))>>
                       ELSE <<>>]
        Fixed(r1) == [r |-> r1, emits |-> IF r1.ok THEN <<ev("arg", r1.v)>> ELSE <<>>]
        Binary(m) == [r |-> m.r, emits |-> <<ev(IF m.r.ok THEN "arg" ELSE "argPartial", m.vals)>>]
        SubAuthorities(r1, m) ==
            [r |-> m.r,
             emits |-> <<ev(IF m.r.ok THEN "arg" ELSE "argPartial", <<r1.v>> \o m.vals)>>]
        Sid(r1) ==
            IF ~r1.ok THEN [r |-> r1, emits |-> <<>>]
            ELSE SubAuthorities(r1, ReadMany(r1, 4, (argLen - 8) \div 4))
        StringArray(m) ==
            [r |-> [m.r EXCEPT !.c = SkipBytes(r.c, Num(argLen))],
             emits |-> <<ev("arg", m.vals)>>]
    IN  CASE argType = 1 -> String(ReadMany(r, 2, argLen \div 2))
          [] FixedSize(argType) > 0 -> Fixed(ReadData(r, FixedSize(argType)))
          [] argType = 14 -> Binary(ReadMany(r, 1, argLen))
          [] argType = 19 ->
               IF argLen < 8 THEN [r |-> [r EXCEPT !.ok = FALSE], emits |-> <<>>]
               ELSE Sid(ReadData(r, 8))
          [] argType = 129 ->
               StringArray(ReadAll([r EXCEPT !.c = UpdateLen(r.c, SizeT(AddN(r.c.offset, argLen)))],
                                   2))
          [] OTHER ->
               [r |-> [r EXCEPT !.c = SkipBytes(r.c, Num(argLen))],
                emits |-> IF argType # 0
                          THEN <<Ev("arg", inst, argumentIdx, argPair.key, <<argPair.type, argLen>>)>>
                          ELSE <<>>]

\* the loop over fixed run from its last pair to its first
FixedEmissionsReversed(d, inst) ==
    [i \in 1..Len(d.fixed) |->
        Ev("fixed", inst, Len(d.fixed) + 1 - i, d.fixed[Len(d.fixed) + 1 - i].key,
           d.fixed[Len(d.fixed) + 1 - i].value)]

\* the printf loop over currentTemplatePtr->fixed
FixedEmissions(d, inst) ==
    [i \in 1..Len(d.fixed) |-> Ev("fixed", inst, i, d.fixed[i].key, d.fixed[i].value)]

\* numArguments * 2, computed in uint32_t
ArgumentMapCount(numArguments) == Wrap32(Add(numArguments, numArguments))

\* From the loop over fixed to the read of the argument map, on the
\* context r.c (whose currentTemplatePtr is set) that stands above the
\* contexts below: the step's end.  A count of 65536 or more that passes
\* the check of ReadData copies from far outside the chunk buffer.
ReadArgumentMap(g, below, r, numArguments, inst, t, insts) ==
    LET Mapped(fixed, count, r1) ==
            Commit(g,
                   Append(below,
                          [r1.c EXCEPT !.ti = [NoTI EXCEPT
                              !.phase = "args",
                              !.inst = inst,
                              !.numArguments = numArguments,
                              !.argumentMap = [i \in 1..count[2] |->
                                                  U16(<<r1.v[2 * i - 1], r1.v[2 * i]>>)]]]),
                   nameStack, t, fixed, r1.log, insts)
        Read(fixed, count) ==
            IF ~HaveEnoughData(r.c, SizeT(Add(count, count)))
            THEN Commit(g, Append(below, [r.c EXCEPT !.result = FALSE, !.ti = NoTI]), nameStack,
                        t, fixed \o <<Ev("FailedArgs", inst, 0, <<>>, <<>>)>>, r.log, insts)
            ELSE IF count[1] > 0
            THEN Crash(Append(r.log, [data |-> r.c.data, offset |-> r.c.offset,
                                      dataLen |-> r.c.dataLen, n |-> EVTX_CHUNK_SIZE + 1]))
            ELSE Mapped(fixed, count, ReadData(r, 2 * count[2]))
    IN  Read(FixedEmissions(t[r.c.currentTemplatePtr], inst), ArgumentMapCount(numArguments))

Below == SubSeq(frames, 1, Len(frames) - 1)

\* tag 0x0C up to the argument map (a known ID) or up to the call of
\* ParseBinXml on the template body (an unknown one)
ParseTemplateInstance(g) ==
    /\ InLoop
    /\ Tag(g) = 12
    /\ LET fail(r) == Commit(g, SetTop([r.c EXCEPT !.result = FALSE]), nameStack, ids, <<>>,
                             r.log, 1)
           Body(shortID, r6, templateBodyLen) ==
               Commit(g,
                  Append(SetTop([r6.c EXCEPT !.ti = [NoTI EXCEPT
                                    !.phase = "body", !.inst = instSeq + 1,
                                    !.shortID = shortID,
                                    !.templateBodyLen = templateBodyLen]]),
                         [InheritWithOffset(NewContext, r6.c, Len(frames), templateBodyLen)
                            EXCEPT !.currentTemplatePtr = shortID, !.caller = "template"]),
                  nameStack, RegisterID(ids, shortID), <<>>, r6.log, 1)
           Definition(shortID, r6) ==
               IF ~r6.ok THEN fail(r6) ELSE Body(shortID, r6, U32(r6.v))
           Counted(shortID, r4) ==
               IF ~r4.ok THEN fail(r4)
               ELSE IF IsKnownID(ids, shortID)
               THEN ReadArgumentMap(g, Below, [r4 EXCEPT !.c.currentTemplatePtr = shortID],
                                    U32(r4.v), instSeq + 1, ids, 1)
               ELSE Definition(shortID, ReadData(ReadData(r4, 16), 4))
           Identified(r2) == Counted(U32(r2.v), ReadData(ReadData(r2, 4), 4))
           Started(r1) ==
               IF ~r1.ok THEN fail(r1)
               ELSE IF r1.v[1] # 1 THEN fail(r1)
               ELSE Identified(ReadData(r1, 4))
       IN  Started(ReadData(AfterTag(g), 1))

\* ParseBinXml has left its loop on the top context
Returning ==
    /\ pc = "binxml"
    /\ Top.ti.phase = "none"
    /\ ~(Top.result /\ Lt(Top.offset, Top.dataLen))

Caller == frames[Len(frames) - 1]

\* the call stack once the top context is gone and its caller is c
Popped(c) == Append(SubSeq(frames, 1, Len(frames) - 2), c)

\* ParseBinXml(&templateCtx) returns into ParseTemplateInstance
TemplateBodyReturn(g) ==
    /\ Returning
    /\ Top.caller = "template"
    /\ LET Counted(ctx, r1) ==
               IF ~r1.ok
               THEN Commit(g, Popped([r1.c EXCEPT !.result = FALSE, !.ti = NoTI]), nameStack,
                           ids, <<>>, <<>>, 0)
               ELSE ReadArgumentMap(g, SubSeq(frames, 1, Len(frames) - 2),
                                    [r1 EXCEPT !.c.currentTemplatePtr = Top.currentTemplatePtr],
                                    U32(r1.v), ctx.ti.inst, ids, 0)
           Returned(ctx) ==
               IF ~Top.result
               THEN Commit(g, Popped([ctx EXCEPT !.result = FALSE, !.ti = NoTI]), nameStack, ids,
                           <<>>, <<>>, 0)
               ELSE Counted(ctx, ReadData(Reader(SkipBytes(ctx, ctx.ti.templateBodyLen),
                                                 WildByte(g)), 4))
       IN  Returned(Caller)

InArguments == pc = "binxml" /\ Top.ti.phase = "args"

\* argumentMap[i], i counted from 0; past its end the vector's storage
\* holds whatever the heap holds
ArgumentMapAt(ti, i, g) ==
    IF i < Len(ti.argumentMap) THEN ti.argumentMap[i + 1] ELSE WildByte(g) * 257

\* one iteration of the loop over the arguments; the model follows the
\* loop for MaxArgSteps iterations
ParseArgument(g) ==
    /\ InArguments
    /\ Lt(Num(Top.ti.argumentIdx), Top.ti.numArguments)
    /\ Top.ti.argumentIdx < MaxArgSteps
    /\ LET Value(next, a) ==
               IF ~a.r.ok
               THEN Commit(g, SetTop([a.r.c EXCEPT !.result = FALSE, !.ti = NoTI]),
                           nameStack, ids, a.emits, a.r.log, 0)
               ELSE Commit(g, SetTop([a.r.c EXCEPT !.ti = next]), nameStack, ids, a.emits,
                           a.r.log, 0)
           Argument(ti, next, argLen, argType, d, found) ==
               IF g = Fault /\ ti.argumentIdx * 2 + 1 >= Len(ti.argumentMap)
               THEN Crash(<<>>)
               ELSE IF found = {}
               THEN Commit(g, SetTop([SkipBytes(Top, Num(argLen)) EXCEPT !.ti = next]),
                           nameStack, ids, <<>>, <<>>, 0)
               ELSE IF argType = 33
               THEN Commit(g,
                           Append(SetTop([Top EXCEPT !.ti.argLen = argLen]),
                                  [UpdateLen(Top, SizeT(AddN(Top.offset, argLen)))
                                     EXCEPT !.state = "Normal", !.caller = "BinXml", !.ti = NoTI]),
                           nameStack, ids, <<>>, <<>>, 0)
               ELSE Value(next, ArgValue(Reader(Top, WildByte(g)), argLen, argType,
                                         d.args[CHOOSE a \in found : TRUE], ti.inst,
                                         ti.argumentIdx))
           Entry(ti, d) ==
               Argument(ti, [ti EXCEPT !.argumentIdx = @ + 1],
                        ArgumentMapAt(ti, ti.argumentIdx * 2, g),
                        ArgumentMapAt(ti, ti.argumentIdx * 2 + 1, g),
                        d, ArgsFind(d, ti.argumentIdx % Limb))
       IN  Entry(Top.ti, ids[Top.currentTemplatePtr])

\* a nested decode whose failure fails the instance
FailingWithNested(ctx, nested) ==
    IF nested.result
    THEN [SkipBytes(ctx, Num(ctx.ti.argLen)) EXCEPT !.ti.argumentIdx = @ + 1]
    ELSE [ctx EXCEPT !.result = FALSE, !.ti = NoTI]

\* the context of the instance once ParseBinXml(&temporaryCtx) has
\* returned: the result of the nested decode is dropped
AfterNestedBinXml(ctx, nested) ==
    [SkipBytes(ctx, Num(ctx.ti.argLen)) EXCEPT !.ti.argumentIdx = @ + 1]

\* ParseBinXml(&temporaryCtx) of a type 0x21 argument returns
NestedBinXmlReturn ==
    /\ Returning
    /\ Top.caller = "BinXml"
    /\ frames' = Popped(AfterNestedBinXml(Caller, Top))
    /\ reads' = <<>>
    /\ UNCHANGED <<conversion, sizeBits, argv, fileNo, pc, header, off, chunk, result,
                   inRecordOff, recordIdx, ids,
                   nameStack, attributes, decoded, out, instSeq, returned, ends>>

\* the loop over the arguments is over: ParseTemplateInstance returns true
TemplateInstanceReturn ==
    /\ InArguments
    /\ ~Lt(Num(Top.ti.argumentIdx), Top.ti.numArguments)
    /\ frames' = SetTop([Top EXCEPT !.ti = NoTI])
    /\ reads' = <<>>
    /\ UNCHANGED <<conversion, sizeBits, argv, fileNo, pc, header, off, chunk, result,
                   inRecordOff, recordIdx, ids,
                   nameStack, attributes, decoded, out, instSeq, returned, ends>>

(***************************************************************************)
(* The walker: main, ParseEVTX, ParseEVTXInt                               *)
(***************************************************************************)
File == argv[fileNo]

\* ParseEVTX returns res to main (printing "Failed on" when told to), and
\* main goes on to the next file
ReturnToMain(res, printFailed) ==
    /\ returned' = Append(returned, res)
    /\ ends' = Append(ends, IF printFailed THEN Len(out) + 1 ELSE Len(out))
    /\ out' = IF printFailed THEN Append(out, Ev("Failed", 0, fileNo, <<>>, <<>>)) ELSE out
    /\ fileNo' = fileNo + 1
    /\ pc' = IF fileNo + 1 > Len(argv) THEN "done" ELSE "open"

\* a walker that forgets the version word
HeaderRead(f) == ~f.headerShort

\* the read of the header delivers all of it and its version is 3.1
HeaderAccepted(f) == ~f.headerShort /\ f.version = EvtxVersion

\* open, the read of the header and the check of its version
OpenFile ==
    /\ pc = "open"
    /\ reads' = <<>>
    /\ IF ~File.openable
       THEN /\ ReturnToMain(FALSE, FALSE)
            /\ UNCHANGED <<header, off, result>>
       ELSE IF ~HeaderAccepted(File)
       THEN /\ ReturnToMain(FALSE, TRUE)
            /\ header' = [magic |-> File.magic, version |-> File.version]
            /\ UNCHANGED <<off, result>>
       ELSE /\ header' = [magic |-> File.magic, version |-> File.version]
            /\ off' = Num(SizeofEvtxHeader)
            /\ result' = TRUE
            /\ pc' = "chunk"
            /\ UNCHANGED <<out, fileNo, returned, ends>>
    /\ UNCHANGED <<conversion, sizeBits, argv, chunk, inRecordOff, recordIdx, ids,
                   nameStack, attributes, decoded,
                   frames,
                   instSeq>>

\* the 64 KiB region of the file at offset off (off = 4096 + 65536 * k),
\* or none when the file ends before it
RegionNo == off[1] + 1

\* a reset that leaves the cache as it is
KeepTemplates == ids

\* ResetTemplates(): the cache after ids.Reset()
ResetTemplates == <<>>

\* a walker that takes any region for a chunk
ChunkMagicIgnored(region) == TRUE

\* memcmp(chunkHeader->magic, EVTX_CHUNK_HEADER_MAGIC, 8) is 0
ChunkMagicMatches(region) == RegionBytes(region, 0, 8) = EVTX_CHUNK_HEADER_MAGIC

\* the head of the chunk loop: both resets, lseek, read, the magic
ReadChunk ==
    /\ pc = "chunk"
    /\ ids' = ResetTemplates
    /\ nameStack' = <<>>
    /\ attributes' = <<>>
    /\ decoded' = {}
    /\ recordIdx' = 0
    /\ reads' = <<>>
    /\ IF ~File.seekable
       THEN /\ result' = FALSE
            /\ ReturnToMain(FALSE, TRUE)
            /\ UNCHANGED <<chunk, inRecordOff>>
       ELSE IF RegionNo > Len(File.chunks) \/ File.chunks[RegionNo].short
       THEN /\ ReturnToMain(result, ~result)
            /\ UNCHANGED <<chunk, inRecordOff, result>>
       ELSE IF ~ChunkMagicMatches(File.chunks[RegionNo])
       THEN /\ ReturnToMain(result, ~result)
            /\ chunk' = File.chunks[RegionNo]
            /\ UNCHANGED <<inRecordOff, result>>
       ELSE /\ chunk' = File.chunks[RegionNo]
            /\ inRecordOff' = Num(SizeofEvtxChunkHeader)
            /\ pc' = "record"
            /\ UNCHANGED <<out, fileNo, returned, ends, result>>
    /\ UNCHANGED <<conversion, sizeBits, argv, header, off, frames, instSeq>>

firstRecordNumber == U64(RegionBytes(chunk, 8, 8))

lastRecordNumber == U64(RegionBytes(chunk, 16, 8))

\* the record header at chunk[inRecordOff]
RecordHeader ==
    LET b == RegionBytes(chunk, inRecordOff[2], SizeofEvtxRecordHeader)
    IN  [magic |-> U32(SubSeq(b, 1, 4)), size |-> U32(SubSeq(b, 5, 8)),
         number |-> U64(SubSeq(b, 9, 16)), timestamp |-> U64(SubSeq(b, 17, 24))]

\* Whether gmtime_r can convert the time of a FILETIME.  Every C library
\* converts the years 1970 to 3000; outside them the result depends on
\* the library (gmtime_s rejects negative times and years past 3000).
GmtimeResults(timestamp) ==
    IF timestamp[1][1] >= 414 /\ timestamp[1][1] <= 1568 THEN {TRUE} ELSE BOOLEAN

\* ParseBinXmlPre's context over the chunk, at the record's BinXml
RecordContext ==
    [NewContext EXCEPT !.dataLen = Num(EVTX_CHUNK_SIZE),
                       !.offset = AddN(inRecordOff, SizeofEvtxRecordHeader)]

\* the records printed so far
Printed == Cardinality({i \in 1..Len(out) : out[i].k = "Record"})

\* the head of the record loop, up to the call of ParseBinXmlPre; the
\* model follows a walk for MaxPrinted records
ReadRecord ==
    /\ pc = "record"
    /\ Printed < MaxPrinted
    /\ reads' = <<>>
    /\ IF Lt(Num(EVTX_CHUNK_SIZE), AddN(inRecordOff, SizeofEvtxRecordHeader))
       THEN /\ pc' = "endchunk"
            /\ UNCHANGED <<result, out, frames, recordIdx>>
       ELSE IF RecordHeader.magic # RecordMagic
       THEN /\ pc' = "endchunk"
            /\ UNCHANGED <<result, out, frames, recordIdx>>
       ELSE \E converted \in GmtimeResults(RecordHeader.timestamp) :
              IF ~converted
              THEN /\ result' = FALSE
                   /\ pc' = "endchunk"
                   /\ UNCHANGED <<out, frames, recordIdx>>
              ELSE /\ out' = Append(out, Ev("Record", 0, 0, <<>>, RecordHeader.number))
                   /\ frames' = <<RecordContext>>
                   /\ recordIdx' = recordIdx + 1
                   /\ pc' = "binxml"
                   /\ UNCHANGED result
    /\ UNCHANGED <<conversion, sizeBits, argv, fileNo, header, off, chunk, inRecordOff, ids,
                   nameStack, attributes, decoded,
                   instSeq, returned, ends>>

\* the test with both ends of the range left out
NumberStrictlyInRange(number) ==
    Lt64(firstRecordNumber, number) /\ Lt64(number, lastRecordNumber)

\* the test on the number of a record that failed to decode
NumberInRange(number) ==
    Le64(firstRecordNumber, number) /\ Le64(number, lastRecordNumber)

\* ParseBinXmlPre returns into the record loop
RecordReturn ==
    /\ Returning
    /\ Top.caller = "record"
    /\ frames' = <<>>
    /\ reads' = <<>>
    /\ IF ~Top.result
       THEN /\ result' = ~NumberInRange(RecordHeader.number)
            /\ pc' = "endchunk"
            /\ UNCHANGED <<out, inRecordOff>>
       ELSE /\ out' = Append(out, Ev("Newline", 0, 0, <<>>, <<>>))
            /\ inRecordOff' = Add(inRecordOff, RecordHeader.size)
            /\ pc' = "record"
            /\ UNCHANGED result
    /\ UNCHANGED <<conversion, sizeBits, argv, fileNo, header, off, chunk, recordIdx, ids,
                   nameStack, attributes, decoded,
                   instSeq, returned, ends>>

\* a stride of the size of the file header
StrideOfHeader(o) == AddN(o, SizeofEvtxHeader)

\* off += chunk.size()
NextStride(o) == AddN(o, EVTX_CHUNK_SIZE)

\* after the record loop: the next stride, and the check of inRecordOff
NextChunk ==
    /\ pc = "endchunk"
    /\ reads' = <<>>
    /\ off' = NextStride(off)
    /\ IF Lt(NextStride(off), inRecordOff)
       THEN /\ result' = FALSE
            /\ ReturnToMain(FALSE, TRUE)
       ELSE IF ~result
       THEN /\ ReturnToMain(FALSE, TRUE)
            /\ UNCHANGED result
       ELSE /\ pc' = "chunk"
            /\ UNCHANGED <<result, out, fileNo, returned, ends>>
    /\ UNCHANGED <<conversion, sizeBits, argv, header, chunk, inRecordOff, recordIdx, ids,
                   nameStack, attributes, decoded,
                   frames, instSeq>>

(***************************************************************************)
(* The input files.  A file is                                             *)
(*   openable, seekable, headerShort   what open, lseek and the read of    *)
(*                                     the header do                       *)
(*   magic, version                    the header's fields                 *)
(*   chunks                            its 64 KiB regions after the header *)
(* and a region is [short, head, body]: a short read, or the bytes from 0  *)
(* and the bytes from 0x200 (zero elsewhere).  The bytes are assembled     *)
(* from items; the decoder sees only the bytes.                            *)
(***************************************************************************)
Ascii16(str) == Cat([i \in 1..Len(str) |-> LE16(str[i])])

\* a name on the wire: next link, hash, length, UTF-16 units, null unit
NameRec(str) == Zeros(4) \o LE16(0) \o LE16(Len(str)) \o Ascii16(str) \o <<0, 0>>

StrEventID == <<69, 118, 101, 110, 116, 73, 68>>

\* the names kept in the reserved part of the chunk header, from 0x80 on
NameTable == <<StrData, StrName, StrEventData>>

OffsetofReserved2 == 128

SizeofChunkFields == 44

NameTableAt == OffsetofReserved2

RECURSIVE NameOffset(_)
NameOffset(i) ==
    IF i = 1 THEN NameTableAt ELSE NameOffset(i - 1) + Len(NameRec(NameTable[i - 1]))

RefData == Num(NameOffset(1))

RefName == Num(NameOffset(2))

RefEventData == Num(NameOffset(3))

ChunkHead(magic, first, last) ==
    magic \o LE64(first) \o LE64(last) \o LE64(first) \o LE64(last) \o LE32(Num(OffsetofReserved2))
          \o Zeros(NameTableAt - SizeofChunkFields) \o Cat([i \in 1..Len(NameTable) |-> NameRec(NameTable[i])])

N64(n) == <<Zero, Num(n)>>

\* items of BinXml
Raw(bytes) == [t |-> "raw", bytes |-> bytes]

OpenRef(ref) == Raw(<<1, 0, 0, 0, 0, 0, 0>> \o LE32(ref))

OpenAttrsRef(ref) == Raw(<<65, 0, 0, 0, 0, 0, 0>> \o LE32(ref) \o Zeros(4))

OpenInline(str) == [t |-> "open", name |-> str]

AttrRef(ref) == Raw(<<6>> \o LE32(ref))

AttrInline(str) == [t |-> "attr", name |-> str]

Text(str) == Raw(<<5, 1>> \o LE16(Len(str)) \o Ascii16(str))

Subst(idx, type) == Raw(<<14>> \o LE16(idx) \o <<type>>)

Slot(len, type, val) == [len |-> len, type |-> type, val |-> val]

\* a template instance: with def, the definition (16 bytes of GUID, the
\* body length, the body, the argument count again) is inline
Instance(id, def, bodyLen, body, numArguments, slots) ==
    [t |-> "ti", id |-> id, def |-> def, bodyLen |-> bodyLen, body |-> body,
     numArguments |-> numArguments, slots |-> slots]

Exact == <<-1, -1>>

RECURSIVE Asm(_, _)
AsmItem(item, at) ==
    CASE item.t = "raw" -> item.bytes
      [] item.t = "open" -> <<1, 0, 0, 0, 0, 0, 0>> \o LE32(Num(at + 11)) \o NameRec(item.name)
      [] item.t = "attr" -> <<6>> \o LE32(Num(at + 5)) \o NameRec(item.name)
      [] item.t = "ti" ->
           LET body == Asm(item.body, at + 34)
               bodyLen == IF item.bodyLen = Exact THEN Num(Len(body)) ELSE item.bodyLen
           IN  <<12, 1>> \o LE32(item.id) \o Zeros(4) \o LE32(item.numArguments)
               \o (IF item.def
                   THEN Zeros(16) \o LE32(bodyLen) \o body \o LE32(item.numArguments)
                   ELSE <<>>)
               \o Cat([i \in 1..Len(item.slots) |->
                         LE16(item.slots[i].len) \o LE16(item.slots[i].type)])
               \o Cat([i \in 1..Len(item.slots) |-> item.slots[i].val])

\* the bytes of items laid out from chunk offset at
Asm(items, at) ==
    IF items = <<>> THEN <<>>
    ELSE LET b == AsmItem(Head(items), at)
         IN  b \o Asm(Tail(items), at + Len(b))

\* a record: rec.size is Exact or the value of the size field
Record(magic, size, number, timestamp, items) ==
    [magic |-> magic, size |-> size, number |-> number, timestamp |-> timestamp,
     items |-> items]

RecordBytes(rec, at) ==
    LET binxml == Asm(rec.items, at + SizeofEvtxRecordHeader)
        size == IF rec.size = Exact THEN Num(SizeofEvtxRecordHeader + Len(binxml)) ELSE rec.size
    IN  LE32(rec.magic) \o LE32(size) \o LE64(rec.number) \o LE64(rec.timestamp) \o binxml

RECURSIVE RecordsBytes(_, _)
RecordsBytes(recs, at) ==
    IF recs = <<>> THEN <<>>
    ELSE LET b == RecordBytes(Head(recs), at)
         IN  b \o RecordsBytes(Tail(recs), at + Len(b))

Region(first, last, recs) ==
    [short |-> FALSE, head |-> ChunkHead(EVTX_CHUNK_HEADER_MAGIC, N64(first), N64(last)),
     body |-> RecordsBytes(recs, SizeofEvtxChunkHeader)]

ZeroedRegion == [short |-> FALSE, head |-> <<>>, body |-> <<>>]

ShortRegion == [short |-> TRUE, head |-> <<>>, body |-> <<>>]

PlainFile(chunks) ==
    [openable |-> TRUE, seekable |-> TRUE, headerShort |-> FALSE,
     magic |-> EVTX_HEADER_MAGIC, version |-> EvtxVersion, chunks |-> chunks]

(***************************************************************************)
(* The family of files Init draws from                                     *)
(***************************************************************************)
\* 2020, and the FILETIME 0 (the year 1601, before the epoch of time_t)
PlainTime == <<<<469, 0>>, Zero>>

OddTime == <<Zero, Zero>>

T1 == <<0, 1>>

T2 == <<0, 2>>

\* <EventData><Data Name="U">%1</Data><Data>%0</Data><EventID>78</EventID></EventData>
BodyA ==
    <<Raw(<<15, 1, 1, 0>>),
      OpenRef(RefEventData), Raw(<<2>>),
      OpenAttrsRef(RefData), AttrRef(RefName), Text(<<85>>), Raw(<<2>>), Subst(1, 8), Raw(<<4>>),
      OpenRef(RefData), Raw(<<2>>), Subst(0, 8), Raw(<<4>>),
      OpenInline(StrEventID), Raw(<<2>>), Text(<<55>>), Raw(<<7>>), Text(<<56>>), Raw(<<4>>),
      Raw(<<4>>), Raw(<<0>>)>>

\* <EventData>%1</EventData>: nothing is declared for index 0
BodyB == <<OpenRef(RefEventData), Raw(<<2>>), Subst(1, 8), Raw(<<4>>), Raw(<<0>>)>>

SlotMenu ==
    { Slot(4, 8, <<1, 0, 0, 0>>),          \* uint32_t
      Slot(2, 4, <<9, 9>>),                \* uint8_t declared two bytes long
      Slot(4, 1, <<104, 0, 105, 0>>),      \* string
      Slot(6, 33, <<5, 1, 1, 0, 65, 0>>) } \* BinXml: a ValueText

\* BinXml with a bad tag, a string array, a SID, a string cut short
OddSlots ==
    { Slot(2, 33, <<16, 0>>),
      Slot(4, 129, <<97, 0, 0, 0>>),
      Slot(12, 19, <<1, 1, 0, 0, 0, 0, 0, 5, 21, 0, 0, 0>>),
      Slot(65534, 1, <<104, 0>>) }

RECURSIVE SeqsUpTo(_, _)
SeqsUpTo(S, n) ==
    IF n = 0 THEN {<<>>}
    ELSE LET shorter == SeqsUpTo(S, n - 1)
         IN  shorter \cup {Append(q, x) : q \in {q \in shorter : Len(q) = n - 1}, x \in S}

Defining(id, body, slots) == Instance(id, TRUE, Exact, body, Num(Len(slots)), slots)

Using(id, slots) == Instance(id, FALSE, Exact, <<>>, Num(Len(slots)), slots)

PlainRecord(number, items) ==
    Record(RecordMagic, Exact, N64(number), PlainTime, items \o <<Raw(<<0>>)>>)

OneRecordFile(items) == PlainFile(<<Region(1, 1, <<PlainRecord(1, items)>>)>>)

\* one record, one instance defining its template, every list of slots
SlotFiles ==
    {OneRecordFile(<<Defining(T1, body, slots)>>) :
        body \in {BodyA, BodyB}, slots \in SeqsUpTo(SlotMenu, MaxArgs)}

U32Slot == Slot(4, 8, <<1, 0, 0, 0>>)

\* one element more than the name stack holds, each inside the one before,
\* the last with an attribute
DeepItems ==
    [i \in 1..(MAX_NAME_STACK_DEPTH + 2) |->
        IF i <= MAX_NAME_STACK_DEPTH THEN OpenRef(RefData)
        ELSE IF i = MAX_NAME_STACK_DEPTH + 1 THEN OpenAttrsRef(RefEventData)
        ELSE AttrRef(RefName)]

\* A template T1 whose body defines a template T2.  The body of T2 names
\* its element by the chunk offset of "Data"; at that offset from its own
\* start the body of T1 holds the name "Name" (a text and an ignored
\* token fill the bytes between).
NestedNameItems ==
    LET inner == Defining(T2, <<OpenRef(RefData), Raw(<<2>>), Subst(0, 8), Raw(<<4>>),
                                Raw(<<0>>)>>,
                          <<U32Slot>>)
        fill == (NameOffset(1) - 11 - 5 - Len(AsmItem(inner, 0))) \div 2
    IN  <<Defining(T1,
                   <<inner, Text([i \in 1..fill |-> 86]), Raw(<<7>>), OpenInline(StrName),
                     Raw(<<0>>)>>,
                   <<>>)>>

\* an instance that defines T1, then an element with a text, then a
\* second instance of T1
LateTextItems ==
    <<Defining(T1, BodyB, <<U32Slot, U32Slot>>),
      OpenRef(RefData), Raw(<<2>>), Text(<<86>>), Raw(<<4>>),
      Using(T1, <<U32Slot, U32Slot>>)>>

\* a template <EventData><Data Name="U">V</Data></EventData>
NamedTextItems ==
    <<Defining(T1,
               <<OpenRef(RefEventData), Raw(<<2>>),
                 OpenAttrsRef(RefData), AttrRef(RefName), Text(<<85>>), Raw(<<2>>),
                 Text(<<86>>), Raw(<<4>>),
                 Raw(<<4>>), Raw(<<0>>)>>,
               <<>>)>>

\* <Data Name Name="U">: an attribute with no value, then one with a value
TwoAttributesItems ==
    <<OpenAttrsRef(RefData), AttrRef(RefName), AttrRef(RefName), Text(<<85>>), Raw(<<2>>)>>

\* an instance that declares 0x80000001 arguments and carries one
ManyArgumentsItems == <<Instance(T1, TRUE, Exact, BodyB, <<32768, 1>>, <<U32Slot>>)>>

\* An instance that defines T1, with a BinXml argument that defines T2;
\* the body of T2 is <Data>V and a token that is none.  Then an instance
\* of T2.
PartialItems ==
    LET body == <<OpenRef(RefData), Raw(<<2>>), Text(<<86>>), Raw(<<16>>)>>
        inner == AsmItem(Defining(T2, body, <<>>), 0)
    IN  <<Defining(T1, BodyA, <<Slot(Len(inner), 33, inner), U32Slot>>), Using(T2, <<>>)>>

\* a template body that ends before the null unit of its element's name
CutNameItems ==
    LET body == <<OpenInline(StrEventID)>>
    IN  <<Instance(T1, TRUE, Num(Len(Asm(body, 0)) - 2), body, Num(0), <<>>)>>

\* a template body that ends before the last unit of a text of 130 units
CutTextItems ==
    LET units == [i \in 1..260 |-> IF i % 2 = 1 THEN 65 ELSE 0]
        body == <<OpenRef(RefData), Raw(<<2>>), Raw(<<5, 1>> \o LE16(130) \o units)>>
    IN  <<Instance(T1, TRUE, Num(Len(Asm(body, 0)) - 2), body, Num(0), <<>>)>>

\* one record each: name offsets and lengths that leave the chunk, a
\* template inside a template, an instance inside a BinXml argument
SpecialFiles ==
    {OneRecordFile(items) : items \in
        {<<Defining(T1, BodyA, <<U32Slot, slot>>)>> : slot \in OddSlots} \cup
        { <<AttrRef(<<0, 65534>>)>>,
          <<AttrRef(<<65535, 65534>>)>>,
          <<AttrRef(Zero)>>,
          <<AttrInline(StrName), Text(<<85>>)>>,
          <<Instance(T1, TRUE, <<65535, 65520>>, BodyB, Num(1), <<U32Slot>>)>>,
          <<Instance(T1, TRUE, Num(4), BodyB, Num(1), <<U32Slot>>)>>,
          <<Instance(T1, TRUE, Exact, <<OpenRef(RefEventData), Raw(<<16>>)>>, Num(0), <<>>)>>,
          <<Defining(T1, <<Defining(T2, BodyB, <<>>), AttrRef(RefName), Raw(<<0>>)>>,
                     <<U32Slot, U32Slot>>)>>,
          <<Defining(T1, BodyA, <<>>), Using(T1, <<U32Slot, U32Slot>>), Text(<<86>>)>>,
          <<Defining(T1, BodyA, <<Slot(2, 33, <<16, 0>>), U32Slot>>)>>,
          DeepItems,
          LateTextItems,
          CutNameItems,
          CutTextItems,
          PartialItems,
          ManyArgumentsItems,
          TwoAttributesItems,
          NamedTextItems,
          NestedNameItems,
          <<Raw(<<4>>), Raw(<<2>>), OpenRef(RefData)>>,
          <<Raw(<<16>>)>> }}

\* the records a chunk is made of
RecordMenu ==
    { PlainRecord(1, <<Defining(T1, BodyB, <<U32Slot, U32Slot>>)>>),
      PlainRecord(2, <<Using(T1, <<U32Slot, U32Slot>>)>>),
      PlainRecord(2, <<Raw(<<16>>)>>),
      PlainRecord(9, <<Raw(<<16>>)>>),
      Record(Zero, Exact, N64(2), PlainTime, <<>>),
      Record(RecordMagic, Zero, N64(2), PlainTime, <<Raw(<<0>>)>>),
      Record(RecordMagic, <<2, 0>>, N64(2), PlainTime, <<Raw(<<0>>)>>),
      Record(RecordMagic, Exact, N64(2), OddTime, <<Raw(<<0>>)>>) }

\* the records whose BinXml decodes
GoodRecords ==
    { PlainRecord(1, <<Defining(T1, BodyB, <<U32Slot, U32Slot>>)>>),
      PlainRecord(2, <<Using(T1, <<U32Slot, U32Slot>>)>>) }

\* one record of the menu, after or before records that decode
RecordFiles ==
    {PlainFile(<<Region(1, 2, recs)>>) : recs \in
        {good \o <<rec>> : good \in SeqsUpTo(GoodRecords, MaxRecords - 1), rec \in RecordMenu}
        \cup
        {<<rec>> \o good : good \in SeqsUpTo(GoodRecords, MaxRecords - 1), rec \in RecordMenu}}

\* the regions a file is made of
RegionMenu ==
    { Region(1, 2, <<PlainRecord(1, <<Defining(T1, BodyB, <<U32Slot, U32Slot>>)>>)>>),
      Region(1, 2, <<PlainRecord(2, <<Using(T1, <<U32Slot, U32Slot>>)>>)>>),
      Region(1, 2, <<PlainRecord(9, <<OpenRef(RefData), Raw(<<16>>)>>)>>),
      Region(1, 2, <<PlainRecord(2, <<OpenRef(RefData), Raw(<<16>>)>>)>>),
      ZeroedRegion,
      ShortRegion }

RegionFiles == {PlainFile(regions) : regions \in SeqsUpTo(RegionMenu, MaxChunks)}

\* what can be wrong with a file before its first chunk
HeaderFiles ==
    LET f == PlainFile(<<Region(1, 2, <<PlainRecord(1, <<Defining(T1, BodyB, <<U32Slot>>)>>)>>)>>)
    IN  { [f EXCEPT !.openable = FALSE],
          [f EXCEPT !.seekable = FALSE],
          [f EXCEPT !.headerShort = TRUE],
          [f EXCEPT !.version = <<1, 1>>],
          [f EXCEPT !.magic = Zeros(8)],
          [f EXCEPT !.magic = Zeros(8), !.version = <<1, 1>>] }

\* a file that leaves the cache and the name stack filled: its record
\* defines a template, opens an element and fails
LeavingFiles == {OneRecordFile(<<Defining(T1, BodyA, <<>>), OpenRef(RefData), Raw(<<16>>)>>)}

\* files given twice on the command line, another file between: one that
\* uses a template it does not define, one whose template body holds a
\* text outside every element, one whose body length wraps a size_t of
\* 32 bits, one that in such a body defines a template whose element is
\* named by the offset 0x10000
RepeatedFiles ==
    {OneRecordFile(items) : items \in
        { <<Using(T1, <<U32Slot, U32Slot>>)>>,
          <<Defining(T1, <<Text(<<86>>), Raw(<<0>>)>>, <<>>), Using(T1, <<>>)>>,
          <<Instance(T1, TRUE, <<65535, 65520>>, BodyB, Num(1), <<U32Slot>>)>>,
          <<Instance(T1, TRUE, <<65535, 65520>>,
                     <<Defining(T2, <<OpenRef(<<1, 0>>), Raw(<<2>>), Subst(0, 8), Raw(<<4>>),
                                      Raw(<<0>>)>>,
                                <<U32Slot>>),
                       Raw(<<0>>)>>,
                     Num(0), <<>>)>> }}

Repeated == {<<f, o, f>> : f \in RepeatedFiles, o \in LeavingFiles}

Files == SlotFiles \cup SpecialFiles \cup RecordFiles \cup RegionFiles \cup HeaderFiles

(***************************************************************************)
(* The specification                                                       *)
(***************************************************************************)
Init ==
    /\ sizeBits \in {32, 64}
    /\ argv \in {<<f>> : f \in Files} \cup Repeated
    /\ fileNo = 1
    /\ pc = "open"
    /\ header = [magic |-> <<>>, version |-> Zero]
    /\ off = Zero
    /\ chunk = ZeroedRegion
    /\ result = TRUE
    /\ inRecordOff = Zero
    /\ recordIdx = 0
    /\ ids = <<>>
    /\ nameStack = <<>>
    /\ attributes = <<>>
    /\ decoded = {}
    /\ frames = <<>>
    /\ out = <<>>
    /\ reads = <<>>
    /\ instSeq = 0
    /\ returned = <<>>
    /\ ends = <<>>
    /\ utf16 = 0
    /\ utf8 = <<>>
    /\ utf8Size = 1

Decode(g) ==
    \/ EndOfFragment(g)
    \/ ParseOpenStartElement(g)
    \/ ParseCloseStartElement(g)
    \/ ParseCloseElement(g)
    \/ ParseValueText(g)
    \/ ParseAttributes(g)
    \/ IgnoredToken(g)
    \/ ParseTemplateInstance(g)
    \/ ParseOptionalSubstitution(g)
    \/ FragmentHeader(g)
    \/ BadTag(g)
    \/ TemplateBodyReturn(g)
    \/ ParseArgument(g)

Next ==
    \/ OpenFile
    \/ ReadChunk
    \/ ReadRecord
    \/ RecordReturn
    \/ NextChunk
    \/ NestedBinXmlReturn
    \/ TemplateInstanceReturn
    \/ \E g \in Wild : Decode(g)

Spec == Init /\ [][Next]_vars

(***************************************************************************)
(* UTF16ToUTF8 on its own: calls with any unit of Units on a buffer of     *)
(* any size up to MaxUtf8Size, each on what the call before left           *)
(***************************************************************************)
Units == {0, 65, 127, 128, 233, 2047, 2048, 8364, 55357, 65535}

InitUTF ==
    /\ sizeBits = 64
    /\ argv = <<>>
    /\ fileNo = 1
    /\ pc = "UTF16ToUTF8"
    /\ header = [magic |-> <<>>, version |-> Zero]
    /\ off = Zero
    /\ chunk = ZeroedRegion
    /\ result = TRUE
    /\ inRecordOff = Zero
    /\ recordIdx = 0
    /\ ids = <<>>
    /\ nameStack = <<>>
    /\ attributes = <<>>
    /\ decoded = {}
    /\ frames = <<>>
    /\ out = <<>>
    /\ reads = <<>>
    /\ instSeq = 0
    /\ returned = <<>>
    /\ ends = <<>>
    /\ utf16 \in Units
    /\ utf8 = <<>>
    /\ utf8Size \in 1..MaxUtf8Size

\* one call UTF16ToUTF8(w, buffer, &bufferUsed, bufferSize), and the unit
\* of the next call
Convert ==
    /\ pc = "UTF16ToUTF8"
    /\ utf8' = UTF16ToUTF8(utf16, utf8, utf8Size)
    /\ utf16' \in Units
    /\ UNCHANGED <<utf8Size, sizeBits, argv, fileNo, pc, header, off, chunk, result,
                   inRecordOff, recordIdx, ids,
                   nameStack, attributes, decoded, frames, out, reads, instSeq,
                   returned, ends>>

NextUTF == Convert

SpecUTF == InitUTF /\ [][NextUTF]_vars

(***************************************************************************)
(* Properties                                                              *)
(***************************************************************************)
\* a logged read lies in its context's window [0, dataLen) and in the
\* chunk buffer
InBounds(rd) == Le(AddN(rd.offset, rd.n), rd.dataLen) /\ ~OutsideChunk(rd)

\* C1: every byte the decoder reads (the tag, every ReadData, the reads
\* through ReadName's temporary context) is at an index inside the chunk
\* buffer and inside the reading context's window.
ReadsInBounds == \A i \in 1..Len(reads) : InBounds(reads[i])

\* C2: when the walker starts to decode the first record of a chunk, the
\* template cache holds no template ID.
CacheEmptyAtFirstRecord ==
    [][(pc = "record" /\ pc' = "binxml" /\ recordIdx' = 1) => ids' = <<>>]_vars

\* the first record of the second chunk is about to be decoded, and an
\* instance was decoded (its template registered) in the first chunk
FirstRecordOfLaterChunk ==
    /\ pc = "binxml"
    /\ recordIdx = 1
    /\ frames = <<RecordContext>>
    /\ off[1] >= 1
    /\ \E i \in 1..Len(out) : out[i].k = "arg"
    /\ ids = <<>>

\* C3: once the record walk of a chunk has ended (and also once the whole
\* walk has returned), the template cache and the name stack are empty.
EmptyAfterChunkWalk == pc \in {"endchunk", "done"} => (ids = <<>> /\ nameStack = <<>>)

\* ParseBinXmlPre is about to return false to the record loop
FailingRecord == Returning /\ Top.caller = "record" /\ ~Top.result

DeclaredRangeHolds ==
    /\ Le64(U64(RegionBytes(chunk, 8, 8)), RecordHeader.number)
    /\ Le64(RecordHeader.number, U64(RegionBytes(chunk, 16, 8)))

FailedOn == Ev("Failed", 0, fileNo, <<>>, <<>>)

\* C4: a record that fails to decode ends the record walk of its chunk and
\* marks the walk failed exactly when its number lies in the range the
\* chunk header declares; a walk marked failed returns false and prints
\* "Failed on", a walk not marked goes on without printing it.
FailureMarksWalkByRange ==
    [][/\ FailingRecord => (pc' = "endchunk" /\ result' = ~DeclaredRangeHolds)
       /\ (pc = "endchunk" /\ ~result) =>
             (returned' = Append(returned, FALSE) /\ out' = Append(out, FailedOn))
       /\ (pc = "endchunk" /\ result /\ Le(inRecordOff, Num(EVTX_CHUNK_SIZE))) =>
             (returned' = returned /\ out' = out /\ pc' = "chunk")]_vars

\* the walk has returned false after a record whose number is in range
\* failed to decode
FailedInRange ==
    /\ pc = "done"
    /\ returned = <<FALSE>>
    /\ DeclaredRangeHolds
    /\ Len(out) >= 2
    /\ out[Len(out)].k = "Failed"
    /\ \E i \in 1..Len(out) :
          /\ out[i].k = "Record"
          /\ out[i].val = RecordHeader.number
          /\ \A j \in (i + 1)..Len(out) : out[j].k \notin {"Record", "Newline"}

\* the record loop stands at a record it stops at without marking the
\* walk failed
AtBadRecord ==
    \/ /\ pc = "record"
       /\ Le(AddN(inRecordOff, SizeofEvtxRecordHeader), Num(EVTX_CHUNK_SIZE))
       /\ RecordHeader.magic # RecordMagic
    \/ FailingRecord /\ ~DeclaredRangeHolds

\* C5: when the record walk of a chunk stops at its first bad record, no
\* later record of the chunk is decoded, and the walker goes on with the
\* chunk at the next 64 KiB stride, whose records it decodes from the
\* first.
StopsAndContinuesAtNextStride ==
    [][/\ AtBadRecord =>
             (pc' = "endchunk" /\ result' /\ inRecordOff' = inRecordOff
              /\ \A i \in (Len(out) + 1)..Len(out') : out'[i].k # "Record")
       /\ (pc = "endchunk" /\ result /\ Le(inRecordOff, Num(EVTX_CHUNK_SIZE))) =>
             (pc' = "chunk" /\ off' = AddN(off, EVTX_CHUNK_SIZE) /\ out' = out)
       /\ (/\ pc = "chunk" /\ File.seekable /\ RegionNo <= Len(File.chunks)
           /\ ~File.chunks[RegionNo].short
           /\ RegionBytes(File.chunks[RegionNo], 0, 8) = EVTX_CHUNK_HEADER_MAGIC) =>
             (pc' = "record" /\ chunk' = File.chunks[RegionNo]
              /\ inRecordOff' = Num(SizeofEvtxChunkHeader) /\ recordIdx' = 0)
       /\ (/\ pc = "record"
           /\ Le(AddN(inRecordOff, SizeofEvtxRecordHeader), Num(EVTX_CHUNK_SIZE))
           /\ RecordHeader.magic = RecordMagic
           /\ GmtimeResults(RecordHeader.timestamp) = {TRUE}) =>
             (pc' = "binxml" /\ frames' = <<RecordContext>>
              /\ out' = Append(out, Ev("Record", 0, 0, <<>>, RecordHeader.number)))]_vars

\* record 9 of the first chunk failed outside the declared range, and the
\* first record of the second chunk is being decoded
DecodingAfterBadRecord ==
    /\ pc = "binxml"
    /\ off = <<1, SizeofEvtxHeader>>
    /\ recordIdx = 1
    /\ Len(out) = 2
    /\ out[1].k = "Record" /\ out[1].val = N64(9)
    /\ out[2].k = "Record"
    /\ result

\* C6: a file whose header magic is not "ElfFile\0" is rejected: none of
\* its records is emitted and its walk fails, whatever its version.
BadHeaderMagicRejected ==
    (argv[1].openable /\ argv[1].magic # EVTX_HEADER_MAGIC) =>
        /\ \A i \in 1..Len(out) : out[i].k # "Record"
        /\ pc = "done" => returned = <<FALSE>>

\* C7: a header whose version is not 0x00030001, or whose read is short,
\* makes the walk fail before any chunk is read: no record is printed and
\* "Failed on" is.
BadVersionFailsBeforeChunks ==
    (argv[1].openable /\ (argv[1].headerShort \/ argv[1].version # <<3, 1>>)) =>
        /\ pc \in {"open", "done"}
        /\ off = Zero /\ chunk = ZeroedRegion
        /\ pc = "open" => out = <<>>
        /\ pc = "done" =>
              (returned = <<FALSE>> /\ out = <<Ev("Failed", 0, 1, <<>>, <<>>)>>)

\* a file of version 1.1, with a chunk that would decode, has failed
RejectedVersion ==
    /\ pc = "done"
    /\ ~argv[1].headerShort
    /\ argv[1].version = <<1, 1>>
    /\ argv[1].chunks # <<>>
    /\ returned = <<FALSE>>
    /\ out = <<Ev("Failed", 0, 1, <<>>, <<>>)>>

\* C8: when the region at the current stride does not begin with
\* "ElfChnk\0", or its read is short, the chunk loop stops: nothing more is
\* printed, no "Failed on", and the walk returns true.
BadChunkStopsSilently ==
    [][(/\ pc = "chunk" /\ File.seekable
        /\ \/ RegionNo > Len(File.chunks)
           \/ File.chunks[RegionNo].short
           \/ RegionBytes(File.chunks[RegionNo], 0, 8) # EVTX_CHUNK_HEADER_MAGIC) =>
          (pc' \in {"open", "done"} /\ returned' = Append(returned, TRUE) /\ out' = out
           /\ frames' = <<>>)]_vars

\* the walk of a file whose second region is zeroed has returned true
\* after the records of its first chunk
StoppedAtZeroedRegion ==
    /\ pc = "done"
    /\ Len(argv[1].chunks) = 2
    /\ argv[1].chunks[2] = ZeroedRegion
    /\ chunk = ZeroedRegion
    /\ returned = <<TRUE>>
    /\ \E i \in 1..Len(out) : out[i].k = "Record"
    /\ \A i \in 1..Len(out) : out[i].k # "Failed"

\* C9: each argument slot of a template instance consumes exactly its
\* declared length: when slot i has been processed, the offset of the
\* instance's context has advanced by the length field of descriptor i.
SlotConsumesDeclaredLength ==
    [][\A d \in 1..Len(frames) :
          (/\ d <= Len(frames')
           /\ frames[d].ti.phase = "args" /\ frames'[d].ti.phase = "args"
           /\ frames'[d].ti.argumentIdx = frames[d].ti.argumentIdx + 1
           /\ 2 * frames[d].ti.argumentIdx + 1 <= Len(frames[d].ti.argumentMap)) =>
             frames'[d].offset =
                SizeT(AddN(frames[d].offset,
                           frames[d].ti.argumentMap[2 * frames[d].ti.argumentIdx + 1]))]_vars

OwnEmission(e) == e.inst > 0 /\ e.k \in {"fixed", "arg", "argPartial"}

\* C10: of the emissions of one template instance, the fixed pairs come
\* first, all of them and in the order of the description, and the
\* arguments follow in increasing index.
FixedBeforeArgumentsInOrder ==
    /\ [](\A i, j \in 1..Len(out) :
            (/\ i < j /\ out[i].inst = out[j].inst
             /\ OwnEmission(out[i]) /\ OwnEmission(out[j])) =>
               /\ out[j].k = "fixed" => out[i].k = "fixed"
               /\ (out[i].k = "fixed") = (out[j].k = "fixed") => out[i].idx < out[j].idx)
    /\ [][(/\ Len(frames') >= 1 /\ Len(frames') <= Len(frames)
           /\ frames'[Len(frames')].ti.phase = "args"
           /\ frames[Len(frames')].ti.phase # "args") =>
             LET c == frames'[Len(frames')]
                 fixed == ids'[c.currentTemplatePtr].fixed
             IN  /\ Len(out') = Len(out) + Len(fixed)
                 /\ \A i \in 1..Len(fixed) :
                       out'[Len(out) + i] =
                          Ev("fixed", c.ti.inst, i, fixed[i].key, fixed[i].value)]_vars

\* an instance has emitted its two fixed pairs and then its arguments 0
\* and 1
FixedThenArguments ==
    \E i \in 1..(Len(out) - 3) :
       /\ out[i].k = "fixed" /\ out[i].idx = 1
       /\ out[i + 1].k = "fixed" /\ out[i + 1].idx = 2
       /\ out[i].val # out[i + 1].val
       /\ out[i + 2].k = "arg" /\ out[i + 2].idx = 0
       /\ out[i + 3].k = "arg" /\ out[i + 3].idx = 1
       /\ out[i].inst = out[i + 3].inst /\ out[i + 1].inst = out[i + 2].inst
       /\ out[i + 1].inst = out[i].inst

\* a nested decode of a type 0x21 argument is about to return
NestedReturning == Returning /\ Top.caller = "BinXml"

\* C11: when the nested decode of a type 0x21 argument of declared length
\* L returns, failed or not, the instance does not fail: the offset of its
\* context advances by exactly L and it goes on with the next slot.
NestedFailureSwallowed ==
    [][NestedReturning =>
          LET ctx == frames[Len(frames) - 1]
              L == ctx.ti.argumentMap[2 * ctx.ti.argumentIdx + 1]
          IN  /\ Len(frames') = Len(frames) - 1
              /\ frames'[Len(frames')].result
              /\ frames'[Len(frames')].offset = SizeT(AddN(ctx.offset, L))
              /\ frames'[Len(frames')].ti.phase = "args"
              /\ frames'[Len(frames')].ti.argumentIdx = ctx.ti.argumentIdx + 1
              /\ pc' = "binxml" /\ result' = result]_vars

\* slot 0, a BinXml argument of length 2 that begins with an unknown
\* token, is behind the instance, and the value of slot 1 was printed
SlotAfterFailedNested ==
    /\ pc = "binxml"
    /\ Top.ti.phase = "args"
    /\ Top.result
    /\ Top.ti.argumentMap = <<2, 33, 4, 8>>
    /\ Top.ti.argumentIdx = 2
    /\ Top.data = Zero
    /\ RegionByte(chunk, Top.offset[2] - 6) \notin KnownTags
    /\ out[Len(out)].k = "arg" /\ out[Len(out)].idx = 1

\* C12: the depth of the name stack is between 0 and 20 in every state; a
\* push (an element opened, an attribute) at depth 20 leaves the stack as
\* it is, and so does a pop (an element closed, an attribute left) at
\* depth 0.
NameStackBounded ==
    /\ [](Len(nameStack) >= 0 /\ Len(nameStack) <= 20)
    /\ [][(InLoop /\ Len(nameStack) = 20 /\ Tag(0) \in {1, 65, 6, 70}) =>
             nameStack' = nameStack]_vars
    /\ [][(InLoop /\ nameStack = <<>> /\ Tag(0) \in {2, 3, 4}) => nameStack' = <<>>]_vars

\* an element was opened with the stack at depth 20: the decoder stands
\* behind its token and the stack holds the 20 names pushed before
PushedAtFullDepth ==
    /\ pc = "binxml"
    /\ Len(nameStack) = 20
    /\ Top.result
    /\ Top.data = Zero
    /\ Lt(Num(SizeofEvtxChunkHeader + SizeofEvtxRecordHeader + 20 * 11), Top.offset)
    /\ \A i \in 1..20 : nameStack[i] = StrData

\* what the k-th file of the command line printed: its emissions, without
\* the numbering of instances and files
Rendered(k) ==
    LET from == IF k = 1 THEN 0 ELSE ends[k - 1]
    IN  [i \in 1..(ends[k] - from) |->
            [k |-> out[from + i].k, key |-> out[from + i].key, val |-> out[from + i].val,
             idx |-> IF out[from + i].k = "Failed" THEN 0 ELSE out[from + i].idx]]

\* C13: what is printed for a file depends on the bytes of the file only:
\* a file decoded first and decoded again after another file is rendered
\* the same both times.
SameFileSameOutput ==
    (pc = "done" /\ Len(argv) = 3 /\ argv[1] = argv[3]) => Rendered(1) = Rendered(3)

\* the name a context over the whole chunk buffer reads at chunk offset o
NameAtChunkOffset(o) ==
    LET c == [NewContext EXCEPT !.dataLen = Num(EVTX_CHUNK_SIZE), !.offset = o]
        Read(r) == IF r.ok THEN StrNCpy(r.v, NameBufferSize) ELSE NULL
    IN  Read(ReadPrefixedUnicodeString(ReadData(ReadData(Reader(c, 0), 4), 2), NameBufferSize,
                                       TRUE))

\* the name offset of the element or attribute token the decoder stands at
NameOffsetOfToken ==
    U32(BytesAt(SkipBytes(Top, Num(IF Tag(0) \in {1, 65} THEN 7 ELSE 1)), 4, 0))

\* C14: within a chunk, a name resolved by a chunk offset is the string
\* that stands at that offset of the chunk, whichever context reads it
\* and whether it is read in place or through the absolute seek.
NameByOffsetIsTheSame ==
    [][(/\ InLoop /\ Tag(0) \in {1, 65, 6, 70}
        /\ Len(nameStack') = Len(nameStack) + 1) =>
          nameStack'[Len(nameStack')] = NameAtChunkOffset(NameOffsetOfToken)]_vars

\* the UTF-8 encoding of the code point u < 0x10000
StandardUtf8(u) ==
    IF u <= 127 THEN <<u>>
    ELSE IF u <= 2047 THEN <<192 + (u \div 64), 128 + (u % 64)>>
    ELSE <<224 + (u \div 4096), 128 + ((u \div 64) % 64), 128 + (u % 64)>>

\* C15: UTF16ToUTF8 appends the UTF-8 encoding of the unit, of 1 byte up
\* to 0x7F, of 2 bytes up to 0x7FF and of 3 bytes above, when the buffer
\* has room for it and the terminator; when not it appends nothing; the
\* bytes written stay below bufferSize and so does bufferUsed.
Utf8Appended ==
    /\ [](Len(utf8) < utf8Size)
    /\ [][pc = "UTF16ToUTF8" =>
             /\ Len(StandardUtf8(utf16)) =
                   (IF utf16 <= 127 THEN 1 ELSE IF utf16 <= 2047 THEN 2 ELSE 3)
             /\ utf8' = IF Len(utf8) + Len(StandardUtf8(utf16)) < utf8Size
                        THEN utf8 \o StandardUtf8(utf16)
                        ELSE utf8]_vars

\* characters of one, two and three bytes were appended, and the buffer
\* has room for the terminator only
Utf8BufferFilled ==
    /\ pc = "UTF16ToUTF8"
    /\ utf8Size = 7
    /\ utf8 = <<65, 195, 169, 226, 130, 172>>

\* the description of template t gains a fixed pair or an args entry
DescriptionGrows(t) ==
    /\ t \in DOMAIN ids'
    /\ \/ Len(ids'[t].fixed) > Len(ids[t].fixed)
       \/ Len(ids'[t].args) > Len(ids[t].args)

\* the decoder is in the body window of the inline definition of t
InOwnBody(t) ==
    /\ Len(frames) >= 2
    /\ Top.caller = "template"
    /\ frames[Len(frames) - 1].ti.phase = "body"
    /\ frames[Len(frames) - 1].ti.shortID = t

\* C16: the description of a template gains a fixed pair or an args entry
\* only while the decoder is inside the body window of that template's
\* own inline definition, never from tokens that follow an instance or
\* that lie in a BinXml argument of an instance.
ModifiedOnlyInOwnBody ==
    [][\A t \in DOMAIN ids : DescriptionGrows(t) => InOwnBody(t)]_vars

\* C17: every context made by InheritWithOffset, at any depth, has for
\* chunkContext the outermost context, the one ParseBinXmlPre lays over
\* the 64 KiB chunk buffer, so that a name offset read in it is resolved
\* from the start of the chunk buffer.
ChunkContextIsOutermost ==
    \A i \in 1..Len(frames) :
        frames[i].caller = "template" =>
            /\ frames[i].chunkContext = 1
            /\ frames[frames[i].chunkContext].data = Zero
            /\ frames[frames[i].chunkContext].dataLen = Num(EVTX_CHUNK_SIZE)

\* the decoder stands at the value of an attribute Name of an element Data
AtNameOfData ==
    /\ Top.state = "InAttribute"
    /\ GetName(nameStack) = StrName
    /\ GetUpperName(nameStack) = StrData

\* C18: a token of ParseBinXml's loop writes the cachedValue of its
\* context only when it is the ValueText of an attribute Name of a Data
\* element; every other ValueText leaves cachedValue as it was.
CachedValueWrittenByNameOnly ==
    [][(InLoop /\ pc' = "binxml" /\ Len(frames') = Len(frames)
        /\ frames'[Len(frames')].cachedValue # Top.cachedValue) => AtNameOfData]_vars

\* the name on top of the name stack, NULL when there is none
StackTop == IF nameStack = <<>> THEN NULL ELSE nameStack[Len(nameStack)]

\* the name below the top of the name stack, NULL when there is none
StackParent == IF Len(nameStack) < 2 THEN NULL ELSE nameStack[Len(nameStack) - 1]

\* the key of a registration made by the token the decoder stands at
EffectiveKey ==
    IF StackTop = StrData /\ StackParent = StrEventData /\ Top.cachedValue # <<>>
    THEN Top.cachedValue
    ELSE StackTop

\* the string of the ValueText the decoder stands at
DecodedText(g) ==
    ReadPrefixedUnicodeString(ReadData(AfterTag(g), 1), NameBufferSize, FALSE).v

\* a ValueText is decoded on a context with an active template description
ValueTextDecoded ==
    /\ InLoop
    /\ Tag(0) \in {5, 69}
    /\ Top.currentTemplatePtr # NULL
    /\ pc' = "binxml"
    /\ Len(frames') = Len(frames)
    /\ frames'[Len(frames')].result

\* C19: a ValueText decoded while a template description is active appends
\* exactly one fixed pair (effective key, value) to that description and
\* changes no other; it appends nothing when the name stack top is Name
\* and its parent is Data, and nothing when the name stack is empty.
ValueTextAppendsOnePair ==
    [][ValueTextDecoded =>
          IF nameStack = <<>> \/ (StackTop = StrName /\ StackParent = StrData)
          THEN ids' = ids
          ELSE \E g \in Wild :
                   ids' = [ids EXCEPT ![Top.currentTemplatePtr].fixed =
                              Append(@, [key |-> EffectiveKey, value |-> DecodedText(g)])]]_vars

\* the value "U" of the Name attribute of a Data element under EventData
\* was decoded and left out, and the text "V" of that element was appended
\* under the key "U"
NameOfDataLeftOut ==
    /\ pc = "binxml"
    /\ \E t \in DOMAIN ids : ids[t].fixed = <<[key |-> <<85>>, value |-> <<86>>]>>

\* C20: the key of every fixed pair and of every args entry registered is
\* cachedValue when the name stack top is Data, the entry below it is
\* EventData and cachedValue is not empty, and the name stack top (the
\* empty string for an args entry when there is none) in every other case.
RegisteredKeyIsEffective ==
    [][InLoop =>
          \A t \in DOMAIN ids \cap DOMAIN ids' :
              /\ Len(ids'[t].fixed) > Len(ids[t].fixed) =>
                     ids'[t].fixed[Len(ids'[t].fixed)].key = EffectiveKey
              /\ Len(ids'[t].args) > Len(ids[t].args) =>
                     ids'[t].args[Len(ids'[t].args)].key =
                         (IF EffectiveKey = NULL THEN <<>> ELSE EffectiveKey)]_vars

\* an args entry keyed by the cachedValue "U" of a Data under EventData,
\* and a fixed pair keyed by the name stack top
KeyedByCachedValueAndByTop ==
    \E t \in DOMAIN ids :
        /\ \E a \in 1..Len(ids[t].args) :
               ids[t].args[a] = [idx |-> 1, key |-> <<85>>, type |-> 8]
        /\ \E f \in 1..Len(ids[t].fixed) : ids[t].fixed[f].key = StrEventID

\* C21: the token that moves a context out of InAttribute pops a name that
\* an Attribute token pushed, and once every context is in state Normal no
\* name pushed by an Attribute token is left on the name stack.
AttributeNamePopped ==
    /\ []((pc = "binxml" /\ \A f \in 1..Len(frames) : frames[f].state = "Normal") =>
              \A i \in 1..Len(attributes) : ~attributes[i])
    /\ [][(InLoop /\ Top.state = "InAttribute" /\ pc' = "binxml"
           /\ Len(frames') = Len(frames) /\ frames'[Len(frames')].state = "Normal") =>
             /\ attributes # <<>>
             /\ attributes[Len(attributes)]
             /\ Len(nameStack') < Len(nameStack)]_vars

\* the window of context c lies inside the window of its parent p
WindowInside(c, p) ==
    \/ c.dataLen = Zero
    \/ /\ Le(p.data, c.data)
       /\ Le(Add(c.data, c.dataLen), Add(p.data, p.dataLen))

\* C22: the window of every context derived from a parent, a template
\* body or a BinXml argument, lies inside the parent's window; a template
\* body gets the length min(wantedLen, parent.dataLen - parent.offset), or
\* 0 when the parent's offset is at or past its end.
WindowsNested ==
    /\ [](\A i \in 2..Len(frames) : WindowInside(frames[i], frames[i - 1]))
    /\ [][(Len(frames') = Len(frames) + 1 /\ frames'[Len(frames')].caller = "template") =>
             LET parent == frames'[Len(frames)]
                 child == frames'[Len(frames')]
                 wantedLen == parent.ti.templateBodyLen
                 left == Sub(parent.dataLen, parent.offset)
             IN  child.dataLen =
                     IF Le(parent.dataLen, parent.offset) THEN Zero
                     ELSE IF Lt(wantedLen, left) THEN wantedLen ELSE left]_vars

\* C23: every iteration of the record loop that decodes its record moves
\* inRecordOff strictly forward, whatever the record's size field holds,
\* so that the record loop of a chunk comes to an end.
RecordLoopAdvances ==
    [][(pc = "binxml" /\ pc' = "record") => Lt(inRecordOff, inRecordOff')]_vars

\* C24: the descriptor array read for an instance holds 2 * numArguments
\* fields, the product taken in 32 bits, and the fields argumentMap[2 * i]
\* and argumentMap[2 * i + 1] that the argument loop takes for
\* i < numArguments lie inside that array.
ArgumentMapIndexedInside ==
    InArguments =>
        /\ Num(Len(Top.ti.argumentMap)) =
               Wrap32(Add(Top.ti.numArguments, Top.ti.numArguments))
        /\ Lt(Num(Top.ti.argumentIdx), Top.ti.numArguments) =>
               2 * Top.ti.argumentIdx + 1 < Len(Top.ti.argumentMap)

\* C25: an instance is rendered as a known ID only from a description
\* whose body was decoded to its end with success; the description left by
\* a body whose decode failed, also inside a BinXml argument, serves no
\* later instance of the chunk.
KnownIDsAreDecoded ==
    [][(InLoop /\ Tag(0) = 12 /\ pc' = "binxml" /\ Len(frames') = Len(frames)
        /\ frames'[Len(frames')].ti.phase = "args") =>
          frames'[Len(frames')].currentTemplatePtr \in decoded]_vars

\* C26: when a token whose last field is a length-prefixed string (an
\* element with no attribute list, an attribute, a text) is decoded with
\* success, the whole declared string, its count, its units and for a
\* name its null unit, lies inside the window of its context: the context
\* is left at or before the end of the window.
StringInsideWindow ==
    [][(InLoop /\ Tag(0) \in {1, 5, 69, 6, 70} /\ pc' = "binxml"
        /\ Len(frames') = Len(frames) /\ frames'[Len(frames')].result) =>
          Le(frames'[Len(frames')].offset, Top.dataLen)]_vars

=============================================================================
